---- MODULE Spec2Model ----
(***************************************************************************)
(* Model of the Tidio product sync (src/app.py): manifest creation,        *)
(* send_batches, the WorkDrive checkpoint upload and the tail of __main__. *)
(*                                                                         *)
(* A product is modelled by its position in the OUTPUT_FILE list (1..N).   *)
(* None is modelled by 0: sent_at = 0 is `None`, last_file_meta = 0 is an  *)
(* attribute that was never set, resource ids of WorkDrive files are the   *)
(* positions 1.. in wd_files.  pendulum.now() is the clock `now`, in ticks  *)
(* of 1/TicksPerSecond s: it advances by the limiter's sleep and by the    *)
(* latency of every request to the Tidio API.                              *)
(***************************************************************************)
EXTENDS Integers, Sequences, FiniteSets, TLC

\* ---------------------------------------------------------------- bounds
\* Processes (python app.py ...) started in one behaviour.
MaxRuns == 2
\* Tidio requests in one behaviour: a run starts only if the batches it has
\* to attempt fit under this value of the clock.
MaxCalls == 6
\* Externally edited checkpoint documents in one behaviour (SpecReset).
MaxResets == 1
\* Largest record count of SpecBatch.
MaxRecords == 250

\* SpecRate: clock ticks in a second, the time after which no further call
\* or pause starts, the requests of one client, and the longest pause,
\* oversleep and response latency (in ticks).
TicksPerSecond == 2
MaxTime == 24
MaxRequests == 3
MaxDelay == 3

\* Largest total_count of SpecFetch, and longest catalogue of SpecRun.
MaxTotal == 401
MaxCatalog == 2
\* Longest attribute value of SpecFeature.
MaxValueLen == 300
\* Days the scheduler is followed.
MaxDays == 2
\* Most records of SpecPrice.
MaxSkus == 101
\* Lookups made on one catalog object, and renames of a category meanwhile.
MaxLookups == 3
MaxRenames == 1

\* Record counts of the source in the fresh runs of Spec, and the fresh
\* runs themselves: <<record count, args.full>>.
RecordCounts == {0, 1, 101, 501}
FreshRuns == (RecordCounts \X {FALSE}) \cup {<<1, TRUE>>}

\* ------------------------------------------------------ program constants
CHECKPOINT_EVERY_N_BATCHES == 5
TIDIO_MAX_PRODUCTS_PER_REQ == 100
\* the literal of TidioAPI.upsert_product_batch
UPSERT_MAX_PRODUCTS == 100
\* the literal of the limiter of TidioAPI.upsert_product_batch (seconds)
MIN_INTERVAL == 7
\* A category id as a caller gives it: <<"int", n>> for the integer n and
\* <<"str", n>> for the string of its digits.  Absent marks a key that is
\* not in a dict.
CategoryKeys == {"int", "str"} \X (0..4)
Absent == "-"
AttributeCodes == {"filt_colour", "weight", "excluded_code", "brand", "category_ids",
                   "priceonapplication"}
MAG_BRAND_ATTRIBUTE_CODE == "brand"
\* entrypoint: last_fired_hour = None, and no launch yet
NoHour == -1
NoLaunch == -1
\* searchCriteria[pageSize]
PAGE_SIZE == 200

None == 0

\* answers of the Tidio API to the PUT, and of WorkDrive to the upload
Responses == {"2xx", "error"}
StatusCodes == {200, 500}

VARIABLES
    phase,          \* "idle" | "send" (inside send_batches) | "exited"
    resume,         \* args.resume of the running process: 0 or a file id
    manifest,       \* the in-memory manifest dict
    pos,            \* position of the for loop of send_batches (1-based)
    all_ok,         \* send_batches' all_ok
    batches_file,   \* saved_batches.json (BATCHES_FILE): <<>> if absent, else <<document>>
    wd_files,       \* WorkDrive folder: the uploaded documents, by resource id
    last_file_meta, \* wd.last_file_meta: resource id of the last accepted upload
    now,            \* the clock, in ticks
    runs,           \* processes started so far
    resets,         \* external edits so far
    attempts,       \* history: the calls send_batches made of the client, in all processes
    exit_code,      \* exit code of the last process, -1 while none has ended
    raised,         \* the last process ended by an uncaught exception
    file_id,        \* the id logged by "To resume, run: ... --resume {file_id}"
    loaded,         \* history: statuses of the manifest when send_batches was entered
    calls,          \* history: the upsert_product_batch calls of this run
    last_request_time, \* TidioAPI.last_request_time (SpecRate), None if unset
    starts,         \* history: the times at which this client issued its PUTs
    last_upsert,    \* history: the latest call of upsert_product_batch: the number
                    \* of products, how it ended, and the status send_batches
                    \* then gives the batch
    stage,          \* parse_and_write_magento_products: "none" | "fetch" | "enrich" |
                    \* "transform" | "written" (it has returned) | "main"
    full_sync,      \* args.full
    catalog,        \* the records of the source that match the search criteria
    requested,      \* history: the page numbers requested, in order
    total_count,    \* fetch_web_products' total_count
    all_products,   \* fetch_web_products' all_products
    fetch_result,   \* "none" | "returned" | "raised"
    bad_page,       \* history: the page whose response had no total_count, 0 if none
    updates,        \* the list fetch_web_products returned
    idx,            \* position of the transform loop in updates (1-based)
    output_json,    \* the destination records built so far
    output_file,    \* OUTPUT_FILE: <<>> if absent, else <<list>>
    failed_at,      \* history: position in updates of the record whose transform raised
    enrich_failed,  \* history: the prefetch of categories and prices raised
    custom_attributes,  \* product["custom_attributes"] given to extract_features
    features,       \* <<>> before extract_features returned, then <<its dict>>
    utc,            \* entrypoint: minutes of UTC time since 00:00 of the first day
    last_fired_hour,    \* main's last_fired_hour, NoHour for None
    sched,          \* where main is: "sleep" (time.sleep) or "wait" (subprocess.run)
    in_flight,      \* number of sync subprocesses that have not exited
    launched,       \* history: "none", or "full" / "incremental" for the latest launch
    last_launch,    \* history: utc of the latest launch, NoLaunch if none
    priced,         \* the price resolution of parse_and_write_magento_products ran
    on_application, \* the SKUs of `updates` whose priceonapplication is 1
    price_queries,  \* history: the chunks fetch_all_prices asked for, in order
    price_answers,  \* history: the SKUs whose items the source returned
    price_map,      \* the mapping fetch_all_prices returned
    categories,     \* the category tree of the source: <<>> or <<root node>>
    renames,        \* number of renames of a category at the source
    category_id_name_map,   \* MagentoCatalog.category_id_name_map
    attribute_options_map,  \* MagentoCatalog.attribute_options_map
    lookups,        \* number of lookups made on the catalog object
    last_result,    \* what the latest lookup returned, "raise" if it raised
    requested_ids,  \* history: the ids the object asked the category endpoint for
    options_requests,   \* history: requests of the options endpoint, per code
    lazy_map,       \* category_id_name_map of a second, never prefetched object
    lazy_result     \* what the latest lookup on the second object returned

\* the variables of the delivery run, without the clock
runVars == <<phase, resume, manifest, pos, all_ok, batches_file, wd_files,
             last_file_meta, runs, resets, attempts, exit_code, raised, file_id,
             loaded, calls>>

rateVars == <<last_request_time, starts, last_upsert>>

pipeVars == <<stage, full_sync, catalog, requested, total_count, all_products,
              fetch_result, bad_page, updates, idx, output_json, output_file,
              failed_at, enrich_failed>>

featVars == <<custom_attributes, features>>

schedVars == <<utc, last_fired_hour, sched, in_flight, launched, last_launch>>

priceVars == <<priced, on_application, price_queries, price_answers, price_map>>

\* the source's category tree, the caches of the MagentoCatalog object and
\* the history of its lookups; the fetch of the pages and the delivery do
\* not touch them
catVars == <<categories, renames, category_id_name_map, attribute_options_map,
             lookups, last_result, requested_ids, options_requests, lazy_map,
             lazy_result>>

extraVars == <<schedVars, priceVars, catVars>>

baseVars == <<runVars, now, rateVars, pipeVars, featVars>>

\* what send_batches and upload_manifest leave alone: the pipeline, the
\* caches, the prices and the scheduler
restVars == <<pipeVars, featVars, extraVars>>

vars == <<runVars, now, rateVars, pipeVars, featVars, extraVars>>

\* ------------------------------------------------------------- helpers
Min(a, b) == IF a < b THEN a ELSE b

\* itertools.batched(iterable, n): consecutive groups of n, the last shorter
RECURSIVE batched_strict(_, _)
batched_strict(iterable, n) ==
    IF Len(iterable) < n THEN <<>>
    ELSE <<SubSeq(iterable, 1, n)>>
         \o batched_strict(SubSeq(iterable, n + 1, Len(iterable)), n)

RECURSIVE batched(_, _)
batched(iterable, n) ==
    IF Len(iterable) = 0 THEN <<>>
    ELSE <<SubSeq(iterable, 1, Min(n, Len(iterable)))>>
         \o batched(SubSeq(iterable, n + 1, Len(iterable)), n)

\* the products list read back from OUTPUT_FILE
Products(n) == [i \in 1..n |-> i]

\* app.py 800-821: the manifest of a fresh run
BuildManifest(products, full, t) ==
    LET batched_ == batched(products, TIDIO_MAX_PRODUCTS_PER_REQ) IN
    [meta |-> [total_products |-> Len(products),
               total_batches |-> Len(batched_),
               created_at |-> t,
               sync_type |-> IF full THEN "full" ELSE "incremental"],
     batches |-> [i \in 1..Len(batched_) |->
                    [index |-> i - 1,
                     size |-> Len(batched_[i]),
                     status |-> "pending",
                     sent_at |-> None,
                     products |-> batched_[i]]]]

EmptyManifest == BuildManifest(<<>>, FALSE, 0)

\* create_batches 680-708: the manifest it saves; its meta block has no
\* sync_type
create_batches(products, t) ==
    LET batched_ == batched(products, TIDIO_MAX_PRODUCTS_PER_REQ) IN
    [meta |-> [total_products |-> Len(products),
               total_batches |-> Len(batched_),
               created_at |-> t],
     batches |-> [i \in 1..Len(batched_) |->
                    [index |-> i - 1,
                     size |-> Len(batched_[i]),
                     status |-> "pending",
                     sent_at |-> None,
                     products |-> batched_[i]]]]

\* sum(1 for b in manifest["batches"] if b["status"] == "sent")
SentCount(m) == Cardinality({i \in 1..Len(m.batches) : m.batches[i].status = "sent"})

\* sum(1 for b in manifest["batches"] if b["status"] != "sent")
Pending(m) == Cardinality({i \in 1..Len(m.batches) : m.batches[i].status # "sent"})

Statuses(m) == [i \in 1..Len(m.batches) |-> m.batches[i].status]

\* send_batches 718: the test that skips a batch
AlreadySentNever(batch_entry) == FALSE
AlreadySent(batch_entry) == batch_entry.status = "sent"

\* TidioAPI.upsert_product_batch: "ok" when the PUT returned 2xx, "raise"
\* otherwise; `response` is the destination's answer ("2xx" | "error").
\* The two pre-flight checks raise before any request is made.
\* upsert_product_batch 398-404: the checks made before anything is sent
preflight_empty_only(products) ==
    IF Len(products) = 0 THEN "raise" ELSE "pass"
preflight(products) ==
    IF Len(products) = 0 THEN "raise"
    ELSE IF Len(products) > UPSERT_MAX_PRODUCTS THEN "raise"
    ELSE "pass"

\* upsert_product_batch 415-428: the number of PUTs one call issues; the
\* HTTPError of raise_for_status is logged and raised again, never retried
puts_retried(products, response) ==
    IF preflight(products) = "raise" THEN 0
    ELSE IF response = "2xx" THEN 1 ELSE 2
puts(products, response) ==
    IF preflight(products) = "raise" THEN 0 ELSE 1

upsert_product_batch(products, response) ==
    IF preflight(products) = "raise" THEN "raise"
    ELSE IF response = "2xx" THEN "ok" ELSE "raise"

\* Period.in_seconds(): whole seconds of a duration given in ticks
in_seconds_rounded(ticks) == (2 * ticks + TicksPerSecond) \div (2 * TicksPerSecond)
in_seconds(ticks) == ticks \div TicksPerSecond

\* upsert_product_batch 405-412: the seconds handed to time.sleep
deficit(elapsed) == IF elapsed < MIN_INTERVAL THEN MIN_INTERVAL - elapsed ELSE 0

\* upsert_product_batch 405-413: the time of the stamp and of the PUT, for a
\* call made at t by a client whose stamp is last; time.sleep returns
\* `oversleep` ticks late
issued_at(last, t, oversleep) ==
    LET slept == IF last # None THEN deficit(in_seconds(t - last)) ELSE 0
    IN t + slept * TicksPerSecond + (IF slept > 0 THEN oversleep ELSE 0)

\* the ticks from the PUT to the pendulum.now() that follows its response,
\* in a delivery run
PutLatencies == {1}

\* WorkDrive.upload_file followed by WorkDrive.get_last_file_id, as
\* upload_manifest runs them on manifest m: status_code 200 stores the
\* document and sets last_file_meta; any other status returns early and
\* leaves last_file_meta alone; get_last_file_id raises AttributeError when
\* last_file_meta was never set in this process.
upload_manifest(m, status_code) ==
    LET accepted == status_code = 200
        files == IF accepted THEN Append(wd_files, m) ELSE wd_files
        meta == IF accepted THEN Len(wd_files) + 1 ELSE last_file_meta
    IN [wd_files |-> files,
        last_file_meta |-> meta,
        raised |-> meta = None,
        file_id |-> meta]

\* send_batches 737-740: the finally block; the content of BATCHES_FILE after
\* an attempt that ended with `result` and left the manifest m
flush_on_success(result, m) == IF result = "ok" THEN <<m>> ELSE batches_file
flush(result, m) == <<m>>

\* send_batches 724-736: what the try and except branches write into the
\* batch entry; t is pendulum.now() after the call
record_attempt_stamped(batch_entry, result, t) ==
    [batch_entry EXCEPT !.status = IF result = "ok" THEN "sent" ELSE "failed",
                        !.sent_at = t]
record_attempt_ok_only(batch_entry, result, t) ==
    IF result = "ok"
    THEN [batch_entry EXCEPT !.status = "sent", !.sent_at = t]
    ELSE batch_entry
record_attempt(batch_entry, result, t) ==
    IF result = "ok"
    THEN [batch_entry EXCEPT !.status = "sent", !.sent_at = t]
    ELSE [batch_entry EXCEPT !.status = "failed"]

\* __main__ 829-831: the indices reported as failed
FailedIndices(m) ==
    {m.batches[i].index : i \in {j \in 1..Len(m.batches) : m.batches[j].status = "failed"}}

\* send_batches 746: the periodic checkpoint test
CheckpointDueTenth(sent_count) == sent_count % (2 * CHECKPOINT_EVERY_N_BATCHES) = 0
CheckpointDue(sent_count) == sent_count % CHECKPOINT_EVERY_N_BATCHES = 0

Init ==
    /\ phase = "idle"
    /\ resume = None
    /\ manifest = EmptyManifest
    /\ pos = 1
    /\ all_ok = TRUE
    /\ batches_file = <<>>
    /\ wd_files = <<>>
    /\ last_file_meta = None
    /\ now = 1
    /\ runs = 0
    /\ resets = 0
    /\ attempts = 0
    /\ exit_code = -1
    /\ raised = FALSE
    /\ file_id = None
    /\ loaded = <<>>
    /\ calls = <<>>
    /\ last_request_time = None
    /\ starts = <<>>
    /\ last_upsert = [n |-> 0, result |-> "none", status |-> "pending"]
    /\ stage = "none"
    /\ full_sync = FALSE
    /\ catalog = <<>>
    /\ requested = <<>>
    /\ total_count = 0
    /\ all_products = <<>>
    /\ fetch_result = "none"
    /\ bad_page = 0
    /\ updates = <<>>
    /\ idx = 1
    /\ output_json = <<>>
    /\ output_file = <<>>
    /\ failed_at = 0
    /\ enrich_failed = FALSE
    /\ custom_attributes = <<>>
    /\ features = <<>>
    /\ utc = 0
    /\ last_fired_hour = NoHour
    /\ sched = "sleep"
    /\ in_flight = 0
    /\ launched = "none"
    /\ last_launch = NoLaunch
    /\ priced = FALSE
    /\ on_application = {}
    /\ price_queries = <<>>
    /\ price_answers = {}
    /\ price_map = <<>>
    /\ categories = <<>>
    /\ renames = 0
    /\ category_id_name_map = [key \in CategoryKeys |-> Absent]
    /\ attribute_options_map = [code \in AttributeCodes |-> <<>>]
    /\ lookups = 0
    /\ last_result = "none"
    /\ requested_ids = {}
    /\ options_requests = [code \in AttributeCodes |-> 0]
    /\ lazy_map = [key \in CategoryKeys |-> Absent]
    /\ lazy_result = "none"

\* A new process: WorkDrive() has no last_file_meta, send_batches makes a
\* new TidioAPI (last_request_time None) and starts with all_ok = True at
\* the first batch.
Enter(m, ref) ==
    /\ phase \in {"idle", "exited"}
    /\ runs < MaxRuns
    /\ attempts + Pending(m) <= MaxCalls
    /\ phase' = "send"
    /\ resume' = ref
    /\ manifest' = m
    /\ pos' = 1
    /\ all_ok' = TRUE
    /\ last_file_meta' = None
    /\ runs' = runs + 1
    /\ exit_code' = -1
    /\ raised' = FALSE
    /\ file_id' = None
    /\ loaded' = Statuses(m)
    /\ calls' = <<>>
    /\ last_request_time' = None
    /\ starts' = <<>>
    /\ UNCHANGED <<batches_file, wd_files, now, resets, attempts, last_upsert>>

\* create_batches(products) called on its own (nothing in src/ calls it):
\* whatever the state of a run, it overwrites BATCHES_FILE and returns None
CreateBatches(n) ==
    /\ batches_file' = <<create_batches(Products(n), now)>>
    /\ UNCHANGED <<phase, resume, manifest, pos, all_ok, wd_files, last_file_meta,
                   now, runs, resets, attempts, exit_code, raised, file_id, loaded,
                   calls, rateVars>>

\* __main__ with --resume f: download_manifest, then send_batches
StartResume(f) ==
    /\ f \in 1..Len(wd_files)
    /\ Enter(wd_files[f], f)

\* one iteration of the for loop that hits `continue`
SkipBatch ==
    /\ phase = "send"
    /\ pos <= Len(manifest.batches)
    /\ AlreadySent(manifest.batches[pos])
    /\ pos' = pos + 1
    /\ UNCHANGED <<phase, resume, manifest, all_ok, batches_file, wd_files,
                   last_file_meta, now, runs, resets, attempts, exit_code, raised,
                   file_id, loaded, calls, rateVars>>

\* one iteration of the for loop that calls the delivery client (its
\* limiter sleeps and stamps the time before the PUT, whose response comes
\* `latency` ticks later; a batch that fails the pre-flight checks raises
\* before the limiter, and no time passes): the try, except and finally
\* blocks, then the periodic checkpoint.  An AttributeError of
\* upload_manifest leaves send_batches and ends the process.
SendBatch(response, latency) ==
    /\ phase = "send"
    /\ pos <= Len(manifest.batches)
    /\ ~AlreadySent(manifest.batches[pos])
    /\ LET batch_entry == manifest.batches[pos]
           result == upsert_product_batch(batch_entry.products, response)
           requested_ == preflight(batch_entry.products) = "pass"
           issued == IF requested_ THEN issued_at(last_request_time, now, 0) ELSE now
           after == IF requested_ THEN issued + latency ELSE now
           entry == record_attempt(batch_entry, result, after)
           m == [manifest EXCEPT !.batches[pos] = entry]
           sent_count == SentCount(m)
           due == CheckpointDue(sent_count)
           call(accepted) == [index |-> batch_entry.index,
                              status |-> batch_entry.status,
                              sent_at |-> batch_entry.sent_at,
                              ok |-> result = "ok",
                              puts |-> puts(batch_entry.products, response),
                              pushed |-> due,
                              accepted |-> accepted,
                              sent_count |-> sent_count]
       IN /\ manifest' = m
          /\ all_ok' = (all_ok /\ result = "ok")
          /\ batches_file' = flush(result, m)
          /\ now' = after
          /\ last_request_time' = IF requested_ THEN issued ELSE last_request_time
          /\ starts' = IF requested_ THEN Append(starts, issued) ELSE starts
          /\ last_upsert' = [n |-> Len(batch_entry.products), result |-> result,
                             status |-> entry.status]
          /\ IF due
             THEN \E status_code \in StatusCodes :
                    LET up == upload_manifest(m, status_code)
                    IN /\ calls' = Append(calls, call(status_code = 200))
                       /\ wd_files' = up.wd_files
                       /\ last_file_meta' = up.last_file_meta
                       /\ raised' = up.raised
                       /\ phase' = IF up.raised THEN "exited" ELSE phase
                       /\ exit_code' = IF up.raised THEN 1 ELSE exit_code
                       /\ pos' = IF up.raised THEN pos ELSE pos + 1
             ELSE /\ calls' = Append(calls, call(FALSE))
                  /\ pos' = pos + 1
                  /\ UNCHANGED <<phase, exit_code, raised, wd_files, last_file_meta>>
    /\ attempts' = attempts + 1
    /\ UNCHANGED <<resume, runs, resets, file_id, loaded>>

\* send_batches returns all_ok; __main__ uploads the final manifest and exits
Finish(status_code) ==
    /\ phase = "send"
    /\ pos > Len(manifest.batches)
    /\ LET up == upload_manifest(manifest, status_code)
       IN /\ wd_files' = up.wd_files
          /\ last_file_meta' = up.last_file_meta
          /\ batches_file' = <<manifest>>
          /\ raised' = up.raised
          /\ file_id' = IF all_ok \/ up.raised THEN None ELSE up.file_id
          /\ exit_code' = IF up.raised THEN 1 ELSE IF all_ok THEN 0 ELSE 1
    /\ phase' = "exited"
    /\ UNCHANGED <<resume, manifest, pos, all_ok, now, runs, resets, attempts, loaded,
                   calls, rateVars>>

\* Manifests in the WorkDrive folder that no run of app.py wrote: one whose
\* first batch holds 101 products, and one whose first batch was delivered
\* and whose second batch holds no product.
ForeignManifests ==
    {[meta |-> [total_products |-> 102, total_batches |-> 2, created_at |-> 1,
                sync_type |-> "incremental"],
      batches |-> <<[index |-> 0, size |-> 101, status |-> "pending",
                     sent_at |-> None, products |-> Products(101)],
                    [index |-> 1, size |-> 1, status |-> "pending",
                     sent_at |-> None, products |-> Products(1)]>>],
     [meta |-> [total_products |-> 1, total_batches |-> 2, created_at |-> 1,
                sync_type |-> "incremental"],
      batches |-> <<[index |-> 0, size |-> 1, status |-> "sent",
                     sent_at |-> 1, products |-> Products(1)],
                    [index |-> 1, size |-> 0, status |-> "pending",
                     sent_at |-> None, products |-> Products(0)]>>]}

\* Not a step of the program: before the first run somebody puts a manifest
\* into the WorkDrive folder, which --resume can then name.
ExternalUpload(m) ==
    /\ phase = "idle"
    /\ wd_files = <<>>
    /\ wd_files' = <<m>>
    /\ UNCHANGED <<phase, resume, manifest, pos, all_ok, batches_file,
                   last_file_meta, now, runs, resets, attempts, exit_code, raised,
                   file_id, loaded, calls, rateVars>>

\* Not a step of the program: somebody edits a checkpoint document in
\* WorkDrive and sets the status of a sent batch back to "failed".
ExternalReset(f, i) ==
    /\ phase \in {"idle", "exited"}
    /\ resets < MaxResets
    /\ f \in 1..Len(wd_files)
    /\ i \in 1..Len(wd_files[f].batches)
    /\ wd_files[f].batches[i].status = "sent"
    /\ wd_files' = [wd_files EXCEPT ![f].batches[i].status = "failed"]
    /\ resets' = resets + 1
    /\ UNCHANGED <<phase, resume, manifest, pos, all_ok, batches_file,
                   last_file_meta, now, runs, attempts, exit_code, raised, file_id,
                   loaded, calls, rateVars>>

\* ------------------------------------------------------- rate limiter

\* TidioAPI(): a new client, as send_batches creates one per run
NewClient ==
    /\ last_request_time' = None
    /\ starts' = <<>>
    /\ UNCHANGED <<runVars, now, last_upsert, pipeVars, featVars, extraVars>>

\* time passes between two calls of the client
Pass(d) ==
    /\ now < MaxTime
    /\ now' = now + d
    /\ UNCHANGED <<runVars, rateVars, pipeVars, featVars, extraVars>>

\* TidioAPI.upsert_product_batch on n products: the pre-flight checks, the
\* limiter (time.sleep returns `oversleep` ticks late), the time stamp, the
\* PUT, and the response after `latency` ticks.
Upsert(n, oversleep, latency, response) ==
    /\ now < MaxTime
    /\ Len(starts) < MaxRequests
    /\ LET result == upsert_product_batch(Products(n), response)
           batch_entry == [status |-> "pending", sent_at |-> None]
       IN last_upsert' = [n |-> n, result |-> result,
                          status |-> record_attempt(batch_entry, result, now).status]
    /\ IF preflight(Products(n)) = "raise"
       THEN UNCHANGED <<now, last_request_time, starts>>
       ELSE LET issued == issued_at(last_request_time, now, oversleep)
            IN /\ last_request_time' = issued
               /\ starts' = Append(starts, issued)
               /\ now' = issued + latency
    /\ UNCHANGED <<runVars, pipeVars, featVars, extraVars>>

NextRate ==
    \/ NewClient
    \/ \E d \in 1..MaxDelay : Pass(d)
    \/ \E n \in {0, 1, 100, 101}, oversleep \in 0..MaxDelay, latency \in 0..MaxDelay,
          response \in Responses : Upsert(n, oversleep, latency, response)

SpecRate == Init /\ [][NextRate]_vars

\* ------------------------------------------------------ extract_features
\* A string is the sequence of its characters; the characters of a value are
\* its positions and those of a label their negatives, so that a prefix is
\* told from any other part of the string.
Value(n) == [i \in 1..n |-> i]
Label(n) == [i \in 1..n |-> 0 - i]

\* json.loads(os.getenv("EXCLUDED_FEATURES")): the value of the environment
\* variable taken here; category_ids, whose value is a list that
\* fetch_web_atrribute_value_label rejects with ValueError, is in it
EXCLUDED_FEATURES == {"excluded_code", "category_ids"}

\* attr["attribute_code"].replace("filt_", "")
key_of(attribute_code) ==
    IF attribute_code = "filt_colour" THEN "colour" ELSE attribute_code

\* label if label else attr["value"]
resolved(attr) == IF attr.label # <<>> THEN attr.label ELSE attr.value

\* extract_features 329-330: if 250 > len(value): value = value[:249]
cut(value) ==
    IF 250 > Len(value) THEN SubSeq(value, 1, Min(249, Len(value))) ELSE value

\* features[key] = value on a dict held as the sequence of its items in
\* insertion order: a key that is assigned again keeps its position
setitem(items, key, value) ==
    IF \E k \in 1..Len(items) : items[k].key = key
    THEN [k \in 1..Len(items) |->
            IF items[k].key = key THEN [key |-> key, value |-> value] ELSE items[k]]
    ELSE Append(items, [key |-> key, value |-> value])

\* extract_features 319-331: the loop over custom_attributes; the dict is
\* the sequence of its <<key, value>> items in insertion order
RECURSIVE extract_features(_)
extract_features(attrs) ==
    IF attrs = <<>> THEN <<>>
    ELSE LET attr == attrs[Len(attrs)]
             before == extract_features(SubSeq(attrs, 1, Len(attrs) - 1))
         IN IF attr.attribute_code \in EXCLUDED_FEATURES THEN before
            ELSE IF attr.value = <<>> THEN before
            ELSE setitem(before, key_of(attr.attribute_code), cut(resolved(attr)))

\* ------------------------------------------------------ enrichment cache
\* A node of the category tree, as the categories endpoint returns it.
Node(id, name, children_data) ==
    [id |-> id, name |-> name, children_data |-> children_data]

Names == {"A", "B"}

\* the trees of the ids 1..3, in every shape, with every naming
Trees ==
    UNION {{Node(1, n[1], <<>>),
            Node(1, n[1], <<Node(2, n[2], <<>>)>>),
            Node(1, n[1], <<Node(2, n[2], <<>>), Node(3, n[3], <<>>)>>),
            Node(1, n[1], <<Node(2, n[2], <<Node(3, n[3], <<>>)>>)>>),
            Node(3, n[3], <<Node(1, n[1], <<Node(2, n[2], <<>>)>>)>>)} :
           n \in [1..3 -> Names]}

\* the nodes of a tree in the order walk visits them
RECURSIVE Flatten(_)
RECURSIVE FlattenAll(_)
Flatten(node) == <<node>> \o FlattenAll(node.children_data)
FlattenAll(nodes) ==
    IF nodes = <<>> THEN <<>> ELSE Flatten(Head(nodes)) \o FlattenAll(Tail(nodes))

TreeIds(tree) == {Flatten(tree)[k].id : k \in 1..Len(Flatten(tree))}

\* GET categories/{id}: the name of the node, for an id of the tree
NameAtSource(tree, id) ==
    LET nodes == Flatten(tree)
    IN nodes[CHOOSE k \in 1..Len(nodes) : nodes[k].id = id].name

\* the tree after the source renamed the category id
RECURSIVE Renamed(_, _, _)
Renamed(node, id, name) ==
    Node(node.id,
         IF node.id = id THEN name ELSE node.name,
         [k \in 1..Len(node.children_data) |-> Renamed(node.children_data[k], id, name)])

\* str(category_id), str(option_id)
to_str(key) == <<"str", key[2]>>

\* `not category_id`, `not option_id`: the integer 0 is falsy, "0" is not
falsy(key) == key = <<"int", 0>>

\* prefetch_all_categories 344-348: a node is stored under its id and
\* under the string of its id
seed_native_only(map, node) ==
    [map EXCEPT ![<<"int", node.id>>] = node.name]
seed(map, node) ==
    [map EXCEPT ![<<"int", node.id>>] = node.name,
                ![to_str(<<"int", node.id>>)] = node.name]

\* prefetch_all_categories 343-352: walk, over the nodes in its order
RECURSIVE walk(_, _)
walk(map, nodes) ==
    IF nodes = <<>> THEN map ELSE walk(seed(map, Head(nodes)), Tail(nodes))

\* fetch_web_category_name on the dict `map` against the tree of the source:
\* the dict afterwards, what is returned, and whether the endpoint was asked
fetch_web_category_name(map, category_id, tree) ==
    IF falsy(category_id)
    THEN [map |-> map, result |-> "raise", requested |-> FALSE]
    ELSE IF map[category_id] # Absent
    THEN [map |-> map, result |-> map[category_id], requested |-> FALSE]
    ELSE IF category_id[2] \in TreeIds(tree)
    THEN [map |-> [map EXCEPT ![category_id] = NameAtSource(tree, category_id[2])],
          result |-> NameAtSource(tree, category_id[2]),
          requested |-> TRUE]
    ELSE [map |-> map, result |-> "raise", requested |-> TRUE]

\* the options of every attribute code at the source: option value -> label
OptionValues == {<<"str", 1>>, <<"str", 2>>}
OptionTable == [value \in OptionValues |-> IF value[2] = 1 THEN "L1" ELSE "L2"]

\* the option ids a caller passes: 0, 1, "1", and "3", which has no label
OptionIds == {<<"int", 0>>, <<"int", 1>>, <<"str", 1>>, <<"str", 3>>}

\* dict.get(str_option_id)
get(table, str_option_id) ==
    IF str_option_id \in DOMAIN table THEN table[str_option_id] ELSE "None"

\* fetch_web_atrribute_value_label on the dict `map`; `options` is what the
\* options endpoint answers if it is asked: <<the option -> label table>>,
\* or <<>> for something that is not a list of options.  The dict
\* afterwards, what is returned, and whether the endpoint was asked.
fetch_web_atrribute_value_label(map, attribute_code, option_id, options) ==
    IF map[attribute_code] # <<>>
    THEN [map |-> map, result |-> get(map[attribute_code][1], to_str(option_id)),
          requested |-> FALSE, raised |-> FALSE]
    ELSE IF falsy(option_id)
    THEN [map |-> map, result |-> "raise", requested |-> FALSE, raised |-> TRUE]
    ELSE IF options = <<>>
    THEN [map |-> map, result |-> "raise", requested |-> TRUE, raised |-> TRUE]
    ELSE [map |-> [map EXCEPT ![attribute_code] = options],
          result |-> get(options[1], to_str(option_id)),
          requested |-> TRUE, raised |-> FALSE]

\* the answer of the options endpoint of the source of a cache run
Options(response) == IF response = "2xx" THEN <<OptionTable>> ELSE <<>>

\* the value of a custom attribute as an option id: a string, and the
\* values of the model differ in their length
option_id_of(value) == <<"str", Len(value)>>

\* the options of attribute_code at a source whose records carry the custom
\* attributes `source`: the values that have a label
options_of(source, attribute_code) ==
    LET labelled == {k \in 1..Len(source) :
                        /\ source[k].attribute_code = attribute_code
                        /\ source[k].label # <<>>}
    IN [o \in {option_id_of(source[k].value) : k \in labelled} |->
          source[CHOOSE k \in labelled : option_id_of(source[k].value) = o].label]

OptionsAnswer(source, attribute_code, response) ==
    IF response = "2xx" THEN <<options_of(source, attribute_code)>> ELSE <<>>

\* extract_features 319-326: the label lookups of the loop, in order, up to
\* the first that raises; st holds the options map, the requests made per
\* code, the number of lookups, the latest result and whether one raised
RECURSIVE label_lookups(_, _, _, _)
label_lookups(st, attrs, source, response) ==
    IF attrs = <<>> \/ st.raised THEN st
    ELSE LET attr == Head(attrs) IN
         IF attr.attribute_code \in EXCLUDED_FEATURES \/ attr.value = <<>>
         THEN label_lookups(st, Tail(attrs), source, response)
         ELSE LET r == fetch_web_atrribute_value_label(
                           st.map, attr.attribute_code, option_id_of(attr.value),
                           OptionsAnswer(source, attr.attribute_code, response))
              IN label_lookups(
                     [map |-> r.map,
                      requests |-> IF r.requested
                                   THEN [st.requests EXCEPT ![attr.attribute_code] = @ + 1]
                                   ELSE st.requests,
                      lookups |-> st.lookups + 1,
                      result |-> r.result,
                      raised |-> r.raised],
                     Tail(attrs), source, response)

\* the source has the category tree `tree`
ServeTree(tree) ==
    /\ categories = <<>>
    /\ categories' = <<tree>>
    /\ UNCHANGED <<renames, category_id_name_map, attribute_options_map, lookups,
                   last_result, requested_ids, options_requests, lazy_map, lazy_result>>
    /\ UNCHANGED <<baseVars, schedVars, priceVars>>

\* not a step of the program: a category is renamed at the source
Rename(id, name) ==
    /\ categories # <<>>
    /\ renames < MaxRenames
    /\ id \in TreeIds(categories[1])
    /\ name # NameAtSource(categories[1], id)
    /\ categories' = <<Renamed(categories[1], id, name)>>
    /\ renames' = renames + 1
    /\ UNCHANGED <<category_id_name_map, attribute_options_map, lookups,
                   last_result, requested_ids, options_requests, lazy_map, lazy_result>>
    /\ UNCHANGED <<baseVars, schedVars, priceVars>>

\* MagentoCatalog.prefetch_all_categories
PrefetchCategories ==
    /\ categories # <<>>
    /\ category_id_name_map' = walk(category_id_name_map, Flatten(categories[1]))
    /\ UNCHANGED <<categories, renames, attribute_options_map, lookups,
                   last_result, requested_ids, options_requests, lazy_map, lazy_result>>
    /\ UNCHANGED <<baseVars, schedVars, priceVars>>

\* MagentoCatalog.fetch_web_category_name(category_id)
LookupCategory(category_id) ==
    /\ categories # <<>>
    /\ lookups < MaxLookups
    /\ LET r == fetch_web_category_name(category_id_name_map, category_id, categories[1])
       IN /\ category_id_name_map' = r.map
          /\ last_result' = r.result
          /\ requested_ids' = IF r.requested THEN requested_ids \cup {category_id[2]}
                               ELSE requested_ids
    /\ lookups' = lookups + 1
    /\ UNCHANGED <<categories, renames, attribute_options_map, options_requests,
                   lazy_map, lazy_result>>
    /\ UNCHANGED <<baseVars, schedVars, priceVars>>

\* the same lookup on the prefetched object and on the second object,
\* which resolves lazily
PairedLookup(category_id) ==
    /\ categories # <<>>
    /\ lookups < MaxLookups
    /\ LET r == fetch_web_category_name(category_id_name_map, category_id, categories[1])
           lazy == fetch_web_category_name(lazy_map, category_id, categories[1])
       IN /\ category_id_name_map' = r.map
          /\ last_result' = r.result
          /\ requested_ids' = IF r.requested THEN requested_ids \cup {category_id[2]}
                               ELSE requested_ids
          /\ lazy_map' = lazy.map
          /\ lazy_result' = lazy.result
    /\ lookups' = lookups + 1
    /\ UNCHANGED <<categories, renames, attribute_options_map, options_requests>>
    /\ UNCHANGED <<baseVars, schedVars, priceVars>>

\* MagentoCatalog.fetch_web_atrribute_value_label(attribute_code, option_id)
LookupLabel(attribute_code, option_id, response) ==
    /\ lookups < MaxLookups
    /\ LET r == fetch_web_atrribute_value_label(attribute_options_map, attribute_code,
                                                 option_id, Options(response))
       IN /\ attribute_options_map' = r.map
          /\ last_result' = r.result
          /\ options_requests' =
                IF r.requested
                THEN [options_requests EXCEPT ![attribute_code] = @ + 1]
                ELSE options_requests
    /\ lookups' = lookups + 1
    /\ UNCHANGED <<categories, renames, category_id_name_map, requested_ids,
                   lazy_map, lazy_result>>
    /\ UNCHANGED <<baseVars, schedVars, priceVars>>

\* one catalog object under any sequence of calls, at a source that may
\* rename a category
NextCache ==
    \/ \E tree \in Trees : ServeTree(tree)
    \/ \E id \in 1..3, name \in Names : Rename(id, name)
    \/ PrefetchCategories
    \/ \E category_id \in CategoryKeys : LookupCategory(category_id)
    \/ \E attribute_code \in AttributeCodes \ EXCLUDED_FEATURES, option_id \in OptionIds,
          response \in Responses : LookupLabel(attribute_code, option_id, response)

SpecCache == Init /\ [][NextCache]_vars

\* prefetch first, then the same lookups on the prefetched object and on a
\* fresh one, at a source that does not change
Prefetched ==
    /\ categories # <<>>
    /\ \A id \in TreeIds(categories[1]) : category_id_name_map[<<"int", id>>] # Absent

NextPrefetch ==
    \/ \E tree \in Trees : ServeTree(tree)
    \/ lookups = 0 /\ PrefetchCategories
    \/ \E category_id \in CategoryKeys :
          Prefetched /\ PairedLookup(category_id)

SpecPrefetch == Init /\ [][NextPrefetch]_vars

\* ------------------------------------------- extract_features, run
\* a custom attribute of a record: its code, its value of n characters and
\* the label of l characters the source has for the value (none if l = 0)
Attr(attribute_code, n, l) ==
    [attribute_code |-> attribute_code, value |-> Value(n), label |-> Label(l)]

\* products with several attributes, one key twice
RepeatedKeys ==
    {<<Attr("filt_colour", 5, 0), Attr("weight", 4, l), Attr("filt_colour", n, 0)>> :
        l \in {0, 3}, n \in {7, MaxValueLen}}
    \cup {<<Attr("filt_colour", 5, 0), Attr("weight", 4, 3), Attr("excluded_code", 2, 0),
            Attr("filt_colour", MaxValueLen, 0)>>,
          <<Attr("weight", 4, 3), Attr("brand", 2, 2), Attr("weight", 6, 0)>>}

\* a product reaches extract_features with the custom attributes attrs
GiveAttributes(attrs) ==
    /\ features = <<>>
    /\ custom_attributes = <<>>
    /\ custom_attributes' = attrs
    /\ UNCHANGED features
    /\ UNCHANGED <<runVars, now, rateVars, pipeVars, extraVars>>

\* a product reaches extract_features with one custom attribute
GiveProduct(attribute_code, n, l) ==
    /\ features = <<>>
    /\ custom_attributes = <<>>
    /\ custom_attributes' = <<Attr(attribute_code, n, l)>>
    /\ UNCHANGED features
    /\ UNCHANGED <<runVars, now, rateVars, pipeVars, extraVars>>

\* MagentoCatalog.extract_features(product) on a new catalog object, at a
\* source whose options are those of the product: the lookups fill
\* attribute_options_map, and a lookup that raises leaves no dict
ExtractFeatures(response) ==
    /\ custom_attributes # <<>>
    /\ features = <<>>
    /\ lookups = 0
    /\ LET st == label_lookups([map |-> attribute_options_map,
                                requests |-> options_requests,
                                lookups |-> 0,
                                result |-> last_result,
                                raised |-> FALSE],
                               custom_attributes, custom_attributes, response)
       IN /\ features' = IF st.raised THEN <<>>
                          ELSE <<extract_features(custom_attributes)>>
          /\ attribute_options_map' = st.map
          /\ options_requests' = st.requests
          /\ lookups' = lookups + st.lookups
          /\ last_result' = st.result
    /\ UNCHANGED <<custom_attributes, categories, renames, category_id_name_map,
                   requested_ids, lazy_map, lazy_result>>
    /\ UNCHANGED <<runVars, now, rateVars, pipeVars, schedVars, priceVars>>

NextFeature ==
    \/ \E attribute_code \in AttributeCodes, n \in 0..MaxValueLen,
          l \in {0, 3, MaxValueLen} : GiveProduct(attribute_code, n, l)
    \/ \E attrs \in RepeatedKeys : GiveAttributes(attrs)
    \/ \E response \in Responses : ExtractFeatures(response)

SpecFeature == Init /\ [][NextFeature]_vars

\* ------------------------------------------------------ price resolution
\* The SKU of a record is its position in `updates`; its id is another
\* number, so that id_to_sku is a real translation.
CHUNK_SIZE == 50
IdOffset == 1000
NULL_PRICE == -1        \* the string "null"
UnknownId == 0          \* an id that is not a key of id_to_sku

id_of(sku) == IdOffset + sku
final_price(sku) == 10 * sku + 5

\* parse_and_write_magento_products 451: the records whose price is asked for
is_queried(priceonapplication) == priceonapplication # 1

\* parse_and_write_magento_products 448-452 and fetch_all_prices 359-360
SkusOf(n, poa) ==
    SelectSeq([i \in 1..n |-> i],
              LAMBDA sku : is_queried(IF sku \in poa THEN 1 ELSE 0))

Chunks(skus) ==
    [c \in 1..((Len(skus) + CHUNK_SIZE - 1) \div CHUNK_SIZE) |->
        SubSeq(skus, (c - 1) * CHUNK_SIZE + 1, Min(c * CHUNK_SIZE, Len(skus)))]

\* the source's answer to one chunk: an item for every id of `extra`, which
\* this request need not have asked for (an id that is not a key of
\* id_to_sku, or the id of any record of `updates`), then the items of the
\* SKUs of the chunk outside `missing`
Items(chunk, missing, extra) ==
    LET found == SelectSeq(chunk, LAMBDA sku : sku \notin missing)
    IN [k \in 1..Len(extra) |-> [id |-> extra[k], final_price |-> 1]]
       \o [k \in 1..Len(found) |->
              [id |-> id_of(found[k]), final_price |-> final_price(found[k])]]

\* fetch_all_prices 373-382: the items of one response merged into
\* sku_prices; an item whose id has no SKU is skipped, and of two items for
\* one SKU the later one stays
merge(sku_prices, items, id_to_sku) ==
    LET known == {k \in 1..Len(items) : items[k].id \in DOMAIN id_to_sku}
        sku_at(k) == id_to_sku[items[k].id]
        keys == {sku_at(k) : k \in known}
        last(sku) == CHOOSE k \in known :
                        sku_at(k) = sku /\ \A j \in known : sku_at(j) = sku => j <= k
    IN [sku \in DOMAIN sku_prices \cup keys |->
          IF sku \in keys THEN items[last(sku)].final_price ELSE sku_prices[sku]]

\* fetch_all_prices: one request per chunk, in order, every one answered
\* with a success status
RECURSIVE fetch_all_prices(_, _, _, _, _)
fetch_all_prices(sku_prices, chunks, id_to_sku, missing, extra) ==
    IF chunks = <<>> THEN sku_prices
    ELSE fetch_all_prices(merge(sku_prices, Items(Head(chunks), missing, extra), id_to_sku),
                          Tail(chunks), id_to_sku, missing, extra)

\* the SKUs of the items of the answers to the requests for `chunks`
ItemSkus(items, id_to_sku) ==
    {id_to_sku[items[k].id] :
        k \in {j \in 1..Len(items) : items[j].id \in DOMAIN id_to_sku}}

Answered(chunks, id_to_sku, missing, extra) ==
    UNION {ItemSkus(Items(chunks[c], missing, extra), id_to_sku) : c \in 1..Len(chunks)}

\* the SKUs among 1..n picked by a stride (0 picks none)
Every(n, stride) == {i \in 1..n : stride # 0 /\ i % stride = 0}

\* ------------------------------------------------- fetch and transform
\* A raw record of the source.  media_gallery_entries is the list of the
\* entries' `"image" in media["types"]`; updated_at is "" or a time stamp;
\* the categories of a record are the value of its custom attribute
\* category_ids, a list of ids, and a record that is price on application
\* has the custom attribute priceonapplication with the value "1".  The
\* record at position sku of the catalogue has the id id_of(sku).
Record(kind, sku) ==
    [id |-> id_of(sku),
     in_website |-> kind # "offsite",
     updated_at |-> IF kind \in {"nodate", "offsite"} THEN "" ELSE "ts",
     media_gallery_entries |->
        CASE kind = "nomedia" -> <<>>
          [] kind = "noimage" -> <<FALSE>>
          [] kind = "second" -> <<FALSE, TRUE>>
          [] OTHER -> <<TRUE>>,
     custom_attributes |->
        CASE kind = "categorised" ->
                <<[attribute_code |-> "category_ids",
                   value |-> <<<<"str", 1>>, <<"str", 2>>>>,
                   label |-> <<>>]>>
          [] kind = "labelled" -> <<Attr("weight", 3, 3)>>
          [] kind = "branded" -> <<Attr("brand", 2, 2)>>
          [] kind = "poa" -> <<Attr("priceonapplication", 1, 0)>>
          [] OTHER -> <<>>]

\* build_attribute_index(product).get(attribute_code, default): of several
\* custom attributes of one code the dict keeps the last
attrs_get(product, attribute_code, default) ==
    LET attrs == product.custom_attributes
        found == {k \in 1..Len(attrs) : attrs[k].attribute_code = attribute_code}
    IN IF found = {} THEN default
       ELSE attrs[CHOOSE k \in found : \A j \in found : j <= k].value

\* parse_and_write_magento_products 447: id_to_sku = {p["id"]: p["sku"]}
id_to_sku_of(products) ==
    [id \in {products[k].id : k \in 1..Len(products)} |->
        CHOOSE k \in 1..Len(products) : products[k].id = id]

\* int(attrs_by_sku[sku].get("priceonapplication", 0)): a value of the
\* model stands for the number of its characters, an absent one gives 0
priceonapplication(product) ==
    Len(attrs_get(product, "priceonapplication", <<>>))

\* the SKUs of the records that are price on application
OnApplication(products) ==
    {k \in 1..Len(products) : priceonapplication(products[k]) = 1}

\* the catalogue of n records of which those of `poa` are price on
\* application
PriceCatalog(n, poa) ==
    [i \in 1..n |-> Record(IF i \in poa THEN "poa" ELSE "good", i)]

RecordKinds == {"good", "offsite", "nodate", "nomedia", "noimage", "second",
                "categorised", "labelled", "branded"}

\* the category trees of the source of a run: category 2 is in the second
SourceTrees == {Node(1, "A", <<>>), Node(1, "A", <<Node(2, "B", <<>>)>>)}

\* the custom attributes of all records of the source
RECURSIVE AttributesOf(_)
AttributesOf(cat) ==
    IF cat = <<>> THEN <<>>
    ELSE IF Len(cat) = 1 THEN cat[1].custom_attributes
    ELSE LET half == Len(cat) \div 2
         IN AttributesOf(SubSeq(cat, 1, half))
            \o AttributesOf(SubSeq(cat, half + 1, Len(cat)))

\* parse_and_write_magento_products 466-469: the names of the categories
\* of a record, looked up in order up to the first lookup that raises
RECURSIVE category_lookups(_, _, _)
category_lookups(st, ids, tree) ==
    IF ids = <<>> \/ st.raised THEN st
    ELSE LET r == fetch_web_category_name(st.map, Head(ids), tree)
         IN category_lookups(
                [map |-> r.map,
                 names |-> IF r.result = "raise" THEN st.names
                           ELSE Append(st.names, r.result),
                 requested |-> IF r.requested THEN st.requested \cup {Head(ids)[2]}
                               ELSE st.requested,
                 lookups |-> st.lookups + 1,
                 result |-> r.result,
                 raised |-> r.result = "raise"],
                Tail(ids), tree)

\* parse_and_write_magento_products 490-501: the vendor, <<>> when the
\* record has no brand attribute, the lookup raises (the exception is
\* swallowed) or no label comes back; st is the state label_lookups left
brand_lookup(st, product, source, response) ==
    LET attrs == product.custom_attributes
        found == {k \in 1..Len(attrs) : attrs[k].attribute_code = MAG_BRAND_ATTRIBUTE_CODE}
        value == attrs[CHOOSE k \in found : \A j \in found : k <= j].value
        none == [map |-> st.map, requests |-> st.requests, lookups |-> 0,
                 result |-> st.result, vendor |-> <<>>]
    IN IF found = {} THEN none
       ELSE IF value = <<>>
       THEN [none EXCEPT !.lookups = 1,
                         !.result = IF st.map[MAG_BRAND_ATTRIBUTE_CODE] # <<>>
                                    THEN "None" ELSE "raise"]
       ELSE LET r == fetch_web_atrribute_value_label(
                         st.map, MAG_BRAND_ATTRIBUTE_CODE, option_id_of(value),
                         OptionsAnswer(source, MAG_BRAND_ATTRIBUTE_CODE, response))
                table == r.map[MAG_BRAND_ATTRIBUTE_CODE]
            IN [map |-> r.map,
                requests |-> IF r.requested
                             THEN [st.requests EXCEPT ![MAG_BRAND_ATTRIBUTE_CODE] = @ + 1]
                             ELSE st.requests,
                lookups |-> 1,
                result |-> r.result,
                vendor |-> IF ~r.raised /\ option_id_of(value) \in DOMAIN table[1]
                           THEN <<table[1][option_id_of(value)]>>
                           ELSE <<>>]

\* the catalogue of n records that all transform
GoodCatalog(n) == [i \in 1..n |-> Record("good", i)]

\* the catalogues of at most MaxCatalog records of any kind
RECURSIVE KindSeqs(_)
KindSeqs(n) ==
    IF n = 0 THEN {<<>>}
    ELSE KindSeqs(n - 1) \cup
         {Append(q, k) : q \in {p \in KindSeqs(n - 1) : Len(p) = n - 1}, k \in RecordKinds}

SmallCatalogs ==
    {[i \in 1..Len(q) |-> Record(q[i], i)] : q \in KindSeqs(MaxCatalog)}

\* the source's answer for page current_page: {total_count, items}, or an
\* error envelope without total_count
PageItems(cat, current_page) ==
    SubSeq(cat, (current_page - 1) * PAGE_SIZE + 1,
           Min(current_page * PAGE_SIZE, Len(cat)))

Response(cat, current_page, has_total_count) ==
    [has_total_count |-> has_total_count,
     total_count |-> Len(cat),
     items |-> IF has_total_count THEN PageItems(cat, current_page) ELSE <<>>]

\* _fetch_web_products 150: "total_count" not in json_response
response_failed_first(current_page, json_response) ==
    current_page = 1 /\ ~json_response.has_total_count
response_failed_falsy(current_page, json_response) ==
    ~json_response.has_total_count \/ json_response.total_count = 0
response_failed(current_page, json_response) ==
    ~json_response.has_total_count

\* fetch_web_products 187: math.ceil(total_count / page_size)
total_pages_floor(count, page_size) == count \div page_size
total_pages(count, page_size) == (count + page_size - 1) \div page_size

\* parse_and_write_magento_products 507-510: the finally block; OUTPUT_FILE
\* after the function ended, by an exception (raised_) or not
write_output_unless_raised(raised_, output) ==
    IF raised_ THEN output_file ELSE <<output>>
write_output(raised_, output) == <<output>>

\* MagentoCatalog.iso8601_format_updated_at: "raise" on an empty string
iso8601_format_updated_at(updated_at) ==
    IF updated_at = "" THEN "raise" ELSE updated_at

\* MagentoCatalog.determine_web_product_image_url: Raise, None, or the
\* position of the first image entry (its file makes the URL)
Raise == -1

RECURSIVE first_image(_, _)
first_image(product_media, k) ==
    IF k > Len(product_media) THEN None
    ELSE IF product_media[k] THEN k
    ELSE first_image(product_media, k + 1)

determine_web_product_image_url(product_media) ==
    IF product_media = <<>> THEN Raise
    ELSE first_image(product_media, 1)

\* parse_and_write_magento_products 473-489: the destination record of one
\* raw record as <<record>>, or <<>> when an exception leaves the dict
\* literal; updated_at is evaluated before image_url
transform(product) ==
    LET updated_at == iso8601_format_updated_at(product.updated_at) IN
    IF updated_at = "raise" THEN <<>>
    ELSE LET image_url == determine_web_product_image_url(product.media_gallery_entries) IN
         IF image_url = Raise THEN <<>>
         ELSE <<[id |-> product.id, updated_at |-> updated_at,
                 image_url |-> image_url]>>

\* parse_and_write_magento_products 473-503: the destination record, from
\* the dict literal, the features, the price map, the vendor and the names
\* of the categories; the SKU of a record is its position in `updates`
tidio_product(literal, feats, prices, sku, vendor, names) ==
    [id |-> literal.id,
     updated_at |-> literal.updated_at,
     image_url |-> literal.image_url,
     features |-> feats,
     price |-> IF sku \in DOMAIN prices THEN prices[sku] ELSE NULL_PRICE,
     vendor |-> vendor,
     product_type |-> IF names = <<>> THEN <<>> ELSE <<names[Len(names)]>>]

\* python app.py [--full]: a process starts and enters
\* parse_and_write_magento_products, which makes a MagentoCatalog with
\* empty caches; the source holds the catalogue cat and the category tree
StartSync(cat, tree, full) ==
    /\ stage = "none"
    /\ phase = "idle"
    /\ stage' = "fetch"
    /\ full_sync' = full
    /\ catalog' = cat
    /\ categories' = <<tree>>
    /\ category_id_name_map' = [key \in CategoryKeys |-> Absent]
    /\ attribute_options_map' = [code \in AttributeCodes |-> <<>>]
    /\ UNCHANGED <<requested, total_count, all_products, fetch_result, bad_page,
                   updates, idx, output_json, output_file, failed_at, enrich_failed>>
    /\ UNCHANGED <<renames, lookups, last_result, requested_ids, options_requests,
                   lazy_map, lazy_result>>
    /\ UNCHANGED <<runVars, now, rateVars, featVars, schedVars, priceVars>>

\* fetch_web_products: one call of _fetch_web_products and what follows it up
\* to the next call, the return, or the exception, which
\* parse_and_write_magento_products catches before it writes OUTPUT_FILE
FetchPage(has_total_count) ==
    /\ stage = "fetch"
    /\ LET current_page == Len(requested) + 1
           json_response == Response(catalog, current_page, has_total_count)
           count == IF current_page = 1 THEN json_response.total_count ELSE total_count
           extended == all_products \o json_response.items
       IN /\ requested' = Append(requested, current_page)
          /\ bad_page' = IF has_total_count THEN bad_page ELSE current_page
          /\ IF response_failed(current_page, json_response)
             THEN /\ fetch_result' = "raised"
                  /\ output_file' = write_output(TRUE, output_json)
                  /\ stage' = "written"
                  /\ UNCHANGED <<total_count, all_products, updates>>
             ELSE IF current_page = 1 /\ count = 0
             THEN /\ fetch_result' = "returned"
                  /\ total_count' = count
                  /\ updates' = <<>>
                  /\ stage' = "enrich"
                  /\ UNCHANGED <<all_products, output_file>>
             ELSE /\ total_count' = count
                  /\ all_products' = extended
                  /\ IF current_page >= total_pages(count, PAGE_SIZE)
                     THEN /\ fetch_result' = "returned"
                          /\ updates' = extended
                          /\ stage' = "enrich"
                     ELSE UNCHANGED <<fetch_result, updates, stage>>
                  /\ UNCHANGED output_file
    /\ UNCHANGED <<full_sync, catalog, idx, output_json, failed_at, enrich_failed>>
    /\ UNCHANGED <<runVars, now, rateVars, featVars, extraVars>>

\* parse_and_write_magento_products 441-453: prefetch_all_categories, then
\* the prices of the records that are not price on application, in chunks;
\* an exception of either ends the function through except/finally.  The
\* source answers the price request number `failing` with an error status
\* (0: none), has no price for the SKUs of `missing`, and adds an item for
\* every id of `extra` to each answer; the requests before the failing one
\* were answered, and the mapping built from them is lost with the call.
Enrich(categories_ok, failing, missing, extra) ==
    /\ stage = "enrich"
    /\ LET n == Len(updates)
           id_to_sku == id_to_sku_of(updates)
           poa == OnApplication(updates)
           chunks == Chunks(SkusOf(n, poa))
       IN /\ missing \subseteq 1..n
          /\ failing \in 0..Len(chunks)
          /\ categories_ok \/ failing = 0
          /\ category_id_name_map' =
                IF categories_ok THEN walk(category_id_name_map, Flatten(categories[1]))
                ELSE category_id_name_map
          /\ on_application' = IF categories_ok THEN poa ELSE on_application
          /\ IF categories_ok /\ failing = 0
             THEN /\ stage' = "transform"
                  /\ idx' = 1
                  /\ priced' = TRUE
                  /\ price_queries' = chunks
                  /\ price_answers' = Answered(chunks, id_to_sku, missing, extra)
                  /\ price_map' = fetch_all_prices(<<>>, chunks, id_to_sku, missing, extra)
                  /\ UNCHANGED <<output_file, enrich_failed>>
             ELSE /\ enrich_failed' = TRUE
                  /\ output_file' = write_output(TRUE, output_json)
                  /\ stage' = "written"
                  /\ price_queries' = IF categories_ok THEN SubSeq(chunks, 1, failing)
                                      ELSE price_queries
                  /\ price_answers' =
                        IF categories_ok
                        THEN Answered(SubSeq(chunks, 1, failing - 1), id_to_sku,
                                      missing, extra)
                        ELSE price_answers
                  /\ UNCHANGED <<idx, priced, price_map>>
    /\ UNCHANGED <<full_sync, catalog, requested, total_count, all_products,
                   fetch_result, bad_page, updates, output_json, failed_at>>
    /\ UNCHANGED <<categories, renames, attribute_options_map, lookups, last_result,
                   requested_ids, options_requests, lazy_map, lazy_result>>
    /\ UNCHANGED <<runVars, now, rateVars, featVars, schedVars>>

\* one iteration of `for product in updates`: skipped when the record is
\* not of the website; otherwise the category names, the dict literal with
\* the features, and the brand are worked out in this order, each lookup
\* filling the caches, and the record is appended, or the first exception
\* ends the function through except/finally.  `response` is what the
\* options endpoint answers when it is asked.
TransformOne(response) ==
    /\ stage = "transform"
    /\ idx <= Len(updates)
    /\ LET product == updates[idx]
           source == AttributesOf(catalog)
           cats == category_lookups([map |-> category_id_name_map, names |-> <<>>,
                                     requested |-> {}, lookups |-> 0,
                                     result |-> last_result, raised |-> FALSE],
                                    attrs_get(product, "category_ids", <<>>),
                                    categories[1])
           literal == transform(product)
           before == [map |-> attribute_options_map, requests |-> options_requests,
                      lookups |-> 0, result |-> cats.result, raised |-> FALSE]
           labels == IF cats.raised \/ literal = <<>> THEN before
                     ELSE label_lookups(before, product.custom_attributes, source, response)
           stopped == cats.raised \/ literal = <<>> \/ labels.raised
           brand == IF stopped
                    THEN [map |-> labels.map, requests |-> labels.requests, lookups |-> 0,
                          result |-> labels.result, vendor |-> <<>>]
                    ELSE brand_lookup(labels, product, source, response)
           appended ==
               tidio_product(literal[1], extract_features(product.custom_attributes),
                             price_map, idx, brand.vendor, cats.names)
       IN IF ~product.in_website
          THEN /\ idx' = idx + 1
               /\ UNCHANGED <<output_json, output_file, failed_at, stage>>
               /\ UNCHANGED <<category_id_name_map, attribute_options_map, lookups,
                              last_result, requested_ids, options_requests>>
          ELSE /\ category_id_name_map' = cats.map
               /\ requested_ids' = requested_ids \cup cats.requested
               /\ attribute_options_map' = brand.map
               /\ options_requests' = brand.requests
               /\ lookups' = lookups + cats.lookups + labels.lookups + brand.lookups
               /\ last_result' = brand.result
               /\ IF stopped
                  THEN /\ failed_at' = idx
                       /\ output_file' = write_output(TRUE, output_json)
                       /\ stage' = "written"
                       /\ UNCHANGED <<idx, output_json>>
                  ELSE /\ output_json' = Append(output_json, appended)
                       /\ idx' = idx + 1
                       /\ UNCHANGED <<output_file, failed_at, stage>>
    /\ UNCHANGED <<full_sync, catalog, requested, total_count, all_products,
                   fetch_result, bad_page, updates, enrich_failed>>
    /\ UNCHANGED <<categories, renames, lazy_map, lazy_result>>
    /\ UNCHANGED <<runVars, now, rateVars, featVars, schedVars, priceVars>>

\* the loop is over: the finally block writes OUTPUT_FILE
WriteOutput ==
    /\ stage = "transform"
    /\ idx > Len(updates)
    /\ output_file' = write_output(FALSE, output_json)
    /\ stage' = "written"
    /\ UNCHANGED <<full_sync, catalog, requested, total_count, all_products,
                   fetch_result, bad_page, updates, idx, output_json, failed_at,
                   enrich_failed>>
    /\ UNCHANGED <<runVars, now, rateVars, featVars, extraVars>>

\* __main__ 797-823: the products are read back from OUTPUT_FILE, batched,
\* and send_batches is entered; a missing file ends the process
RunMain ==
    /\ stage = "written"
    /\ stage' = "main"
    /\ IF output_file = <<>>
       THEN /\ phase' = "exited"
            /\ exit_code' = 1
            /\ raised' = TRUE
            /\ UNCHANGED <<resume, manifest, pos, all_ok, batches_file, wd_files,
                           last_file_meta, runs, resets, attempts, file_id, loaded,
                           calls, now, rateVars>>
       ELSE Enter(BuildManifest(Products(Len(output_file[1])), full_sync, now), None)
    /\ UNCHANGED <<full_sync, catalog, requested, total_count, all_products,
                   fetch_result, bad_page, updates, idx, output_json, output_file,
                   failed_at, enrich_failed>>
    /\ UNCHANGED <<featVars, extraVars>>

\* fetch_web_products 175-202: the items of the pages 1..pages, in the order
\* of the requests
RECURSIVE extended(_, _)
extended(cat, pages) ==
    IF pages = 0 THEN <<>>
    ELSE extended(cat, pages - 1) \o Response(cat, pages, TRUE).items

\* the category tree of the source of a delivery run
SourceTree == Node(1, "A", <<Node(2, "B", <<>>)>>)

\* parse_and_write_magento_products (436-510) run to its end on a new
\* catalog object, at a source of n records that all transform and that
\* answers every request: what the fetch of the pages, the prefetch of the
\* categories and of the prices, the loop and the finally block leave.  A
\* record of GoodCatalog has no custom attribute, so the loop makes no
\* lookup and every record gets no feature, vendor or product type.
parse_and_write_magento_products(n) ==
    LET cat == GoodCatalog(n)
        pages == IF n = 0 THEN 1 ELSE total_pages(n, PAGE_SIZE)
        id_to_sku == id_to_sku_of(cat)
        chunks == Chunks(SkusOf(n, OnApplication(cat)))
        prices == fetch_all_prices(<<>>, chunks, id_to_sku, {}, <<>>)
        output == [i \in 1..n |->
                     tidio_product(transform(cat[i])[1], extract_features(<<>>),
                                   prices, i, <<>>, <<>>)]
    IN [catalog |-> cat,
        requested |-> [p \in 1..pages |-> p],
        total_count |-> Response(cat, 1, TRUE).total_count,
        all_products |-> extended(cat, pages),
        category_id_name_map |->
            walk([key \in CategoryKeys |-> Absent], Flatten(SourceTree)),
        price_queries |-> chunks,
        price_answers |-> Answered(chunks, id_to_sku, {}, <<>>),
        price_map |-> prices,
        output_json |-> output,
        output_file |-> write_output(FALSE, output)]

\* the same for the record counts of the delivery runs, worked out once
Written == [n \in RecordCounts |-> parse_and_write_magento_products(n)]

\* python app.py [--full] from the start of the process to the call of
\* send_batches (791-823): parse_and_write_magento_products, then __main__
\* reads OUTPUT_FILE back and builds the manifest
StartFresh(n, full) ==
    /\ phase \in {"idle", "exited"}
    /\ runs < MaxRuns
    /\ \E done \in {IF n \in RecordCounts THEN Written[n]
                     ELSE parse_and_write_magento_products(n)} :
          /\ Enter(BuildManifest(Products(Len(done.output_file[1])), full, now), None)
          /\ stage' = "main"
          /\ full_sync' = full
          /\ catalog' = done.catalog
          /\ requested' = done.requested
          /\ total_count' = done.total_count
          /\ all_products' = done.all_products
          /\ fetch_result' = "returned"
          /\ bad_page' = 0
          /\ updates' = done.all_products
          /\ idx' = Len(done.all_products) + 1
          /\ output_json' = done.output_json
          /\ output_file' = done.output_file
          /\ failed_at' = 0
          /\ enrich_failed' = FALSE
          /\ priced' = TRUE
          /\ on_application' = {}
          /\ price_queries' = done.price_queries
          /\ price_answers' = done.price_answers
          /\ price_map' = done.price_map
          /\ categories' = <<SourceTree>>
          /\ category_id_name_map' = done.category_id_name_map
          /\ attribute_options_map' = [code \in AttributeCodes |-> <<>>]
          /\ UNCHANGED <<renames, lookups, last_result, requested_ids, options_requests,
                         lazy_map, lazy_result>>
          /\ UNCHANGED <<featVars, schedVars>>

\* fetch_web_products alone, for every total_count up to MaxTotal
NextFetch ==
    \/ \E n \in 0..MaxTotal, tree \in SourceTrees, full \in BOOLEAN :
          StartSync(GoodCatalog(n), tree, full)
    \/ \E has_total_count \in BOOLEAN : FetchPage(has_total_count)

SpecFetch == Init /\ [][NextFetch]_vars

\* one fresh run from the fetch to the exit of the process
NextRun ==
    \/ \E cat \in SmallCatalogs, tree \in SourceTrees, full \in BOOLEAN :
          StartSync(cat, tree, full)
    \/ \E has_total_count \in BOOLEAN : FetchPage(has_total_count)
    \/ \E categories_ok \in BOOLEAN, failing \in {0, 1}, missing \in {{}, {1}} :
          Enrich(categories_ok, failing, missing, <<>>)
    \/ \E response \in Responses : TransformOne(response)
    \/ WriteOutput
    \/ RunMain
    \/ (\E response \in Responses, latency \in PutLatencies : SendBatch(response, latency))
          /\ UNCHANGED restVars
    \/ (\E status_code \in StatusCodes : Finish(status_code)) /\ UNCHANGED restVars

SpecRun == Init /\ [][NextRun]_vars

\* parse_and_write_magento_products on catalogues with records that are
\* price on application, at a source whose price answers may fail, lack a
\* SKU or carry an item nobody asked for
PriceCounts == {0, 1, 2, 3, MaxSkus}
Extras == {<<>>, <<UnknownId>>, <<id_of(1)>>, <<id_of(2), UnknownId>>}

NextPrice ==
    \/ \E n \in PriceCounts, p \in {0, 1, 2, 3} :
          StartSync(PriceCatalog(n, Every(n, p)), SourceTree, FALSE)
    \/ \E has_total_count \in BOOLEAN : FetchPage(has_total_count)
    \/ \E categories_ok \in BOOLEAN, failing \in 0..3, m \in {0, 1, 2, 5},
          extra \in Extras :
          Enrich(categories_ok, failing, Every(Len(updates), m), extra)
    \/ \E response \in Responses : TransformOne(response)
    \/ WriteOutput

SpecPrice == Init /\ [][NextPrice]_vars

\* ------------------------------------------------------------ scheduler
\* entrypoint.py.  Time is counted in whole minutes: main wakes at minute
\* boundaries, and a subprocess that ran through k minute boundaries lets
\* main wake at the next one.
FULL_HOUR == 2
INCREMENTAL_HOURS == {0, 4, 6, 8, 10, 12, 14, 16, 18, 20, 22}
MinutesPerDay == 1440

\* the minute boundaries a sync subprocess may run through
Durations == {0, 1, 59, 60, 119, 120, 1439}

\* datetime.utcnow(): now.hour and now.minute
hour_of(t) == (t \div 60) % 24
minute_of(t) == t % 60

\* main 59: the test that sends the loop back to sleep
skip_same_hour_only(minute, hour, fired) == hour = fired
skip(minute, hour, fired) == minute # 0 \/ hour = fired

\* run_sync 37: subprocess.run returns when the subprocess has exited, so
\* main waits; subprocess.Popen would let it go back to sleep
subprocess_popen == "sleep"
subprocess_run == "wait"

\* main 64-68: what is launched at this hour
launch_of(hour) ==
    IF hour = FULL_HOUR THEN "full"
    ELSE IF hour \in INCREMENTAL_HOURS THEN "incremental"
    ELSE "none"

\* one iteration of `while True`: the sleep to the next minute, the test,
\* and the launch
Wake ==
    /\ sched = "sleep"
    /\ utc < MaxDays * MinutesPerDay
    /\ utc' = utc + 1
    /\ LET hour == hour_of(utc')
           minute == minute_of(utc')
       IN IF skip(minute, hour, last_fired_hour)
          THEN UNCHANGED <<last_fired_hour, sched, in_flight, launched, last_launch>>
          ELSE /\ last_fired_hour' = hour
               /\ IF launch_of(hour) = "none"
                  THEN UNCHANGED <<sched, in_flight, launched, last_launch>>
                  ELSE /\ launched' = launch_of(hour)
                       /\ in_flight' = in_flight + 1
                       /\ last_launch' = utc'
                       /\ sched' = subprocess_run
    /\ UNCHANGED <<baseVars, priceVars, catVars>>

\* the sync subprocess exits after k minute boundaries
ChildExit(k) ==
    /\ in_flight > 0
    /\ utc + k <= MaxDays * MinutesPerDay
    /\ utc' = IF sched = "wait" THEN utc + k ELSE utc
    /\ in_flight' = in_flight - 1
    /\ sched' = "sleep"
    /\ UNCHANGED <<last_fired_hour, launched, last_launch>>
    /\ UNCHANGED <<baseVars, priceVars, catVars>>

NextSched ==
    \/ Wake
    \/ \E k \in Durations : ChildExit(k)

SpecSched == Init /\ [][NextSched]_vars

\* ------------------------------------------------------------- the run
Next ==
    \/ \E run \in FreshRuns : StartFresh(run[1], run[2])
    \/ (\E m \in ForeignManifests : ExternalUpload(m)) /\ UNCHANGED restVars
    \/ (\E f \in 1..Len(wd_files) : StartResume(f)) /\ UNCHANGED restVars
    \/ SkipBatch /\ UNCHANGED restVars
    \/ (\E response \in Responses, latency \in PutLatencies : SendBatch(response, latency))
          /\ UNCHANGED restVars
    \/ (\E status_code \in StatusCodes : Finish(status_code)) /\ UNCHANGED restVars

Spec == Init /\ [][Next]_vars

\* Manifest creation alone, for every record count up to MaxRecords.
NextBatch ==
    \/ \E n \in 0..MaxRecords, full \in BOOLEAN : StartFresh(n, full)
    \/ (\E n \in {0, 1, 101, MaxRecords} : CreateBatches(n)) /\ UNCHANGED restVars

SpecBatch == Init /\ [][NextBatch]_vars

\* The program together with external edits of the checkpoint documents.
NextReset ==
    \/ Next
    \/ \E f \in 1..Len(wd_files) :
          \E i \in 1..Len(wd_files[f].batches) :
             ExternalReset(f, i) /\ UNCHANGED restVars

SpecReset == Init /\ [][NextReset]_vars

\* ------------------------------------------------------------- claims
Exited == phase = "exited"

\* positions of the calls of this run made for the batch at position i
CallsFor(i) == {k \in 1..Len(calls) : calls[k].index = manifest.batches[i].index}

AllSent(m) == SentCount(m) = Len(m.batches)

\* C1: the delivery client is never invoked for a batch whose status is
\* `sent` when the loop reaches it: every call of the run found its batch
\* pending or failed.
C1_NeverDeliverSent ==
    \A k \in 1..Len(calls) : calls[k].status # "sent"

\* a resumed run that has passed a batch loaded as sent without calling the
\* client for it, and has called it for another batch
C1_Witness ==
    /\ phase = "send"
    /\ resume # None
    /\ Len(calls) > 0
    /\ \E i \in 1..(pos - 1) : loaded[i] = "sent" /\ CallsFor(i) = {}

\* C2: a resumed run issues exactly one delivery call for each batch loaded
\* as pending or failed and none for a batch loaded as sent; when all are
\* loaded as sent it issues no call and send_batches returns True.
C2_ResumeOneCallEach ==
    (Exited /\ resume # None) =>
        /\ \A i \in 1..Len(manifest.batches) :
              Cardinality(CallsFor(i)) = IF loaded[i] = "sent" THEN 0 ELSE 1
        /\ (\A i \in 1..Len(loaded) : loaded[i] = "sent") =>
              (calls = <<>> /\ all_ok)

\* C3: when the delivery call for a batch raises, the batch is marked
\* failed, the run is not aborted and every later batch that is not sent is
\* attempted in the same run.
C3_FailureIsolated ==
    Exited =>
        \A k \in 1..Len(calls) :
            ~calls[k].ok =>
                /\ manifest.batches[calls[k].index + 1].status = "failed"
                /\ ~raised
                /\ \A j \in (calls[k].index + 2)..Len(manifest.batches) :
                      loaded[j] = "sent" \/ CallsFor(j) # {}

\* C4: the run reports success (send_batches returned True and the exit
\* code is 0) if and only if every batch is sent when the run ends; a batch
\* left unsent gives a non-zero exit code.
C4_SuccessIffAllSent ==
    Exited =>
        /\ (all_ok /\ exit_code = 0) <=> AllSent(manifest)
        /\ ~AllSent(manifest) => exit_code # 0

\* C5: the file id reported by a run that ends with failed batches names an
\* uploaded document whose content is the final manifest of the run, for
\* every outcome of the uploads.
C5_ReportedRefIsFinal ==
    (Exited /\ file_id # None) =>
        /\ file_id \in 1..Len(wd_files)
        /\ wd_files[file_id] = manifest

\* C6: after every delivery attempt, succeeded or failed, and before the next
\* one, saved_batches.json holds the in-memory manifest with the status
\* written by that attempt.
C6_FlushedAfterAttempt ==
    Len(calls) > 0 => batches_file = <<manifest>>

\* the loop is between two attempts and the last one failed
C6_Witness ==
    /\ phase = "send"
    /\ pos <= Len(manifest.batches)
    /\ Len(calls) > 0
    /\ ~calls[Len(calls)].ok
    /\ manifest.batches[calls[Len(calls)].index + 1].status = "failed"

\* C7: the manifest is pushed to WorkDrive after an attempt exactly when the
\* attempt was a successful send that brought the number of sent batches to
\* a multiple of 5; a failed attempt triggers no push.
C7_PushOnlyOnFifthSend ==
    \A k \in 1..Len(calls) :
        calls[k].pushed <=>
            (calls[k].ok /\ calls[k].sent_count % CHECKPOINT_EVERY_N_BATCHES = 0)

\* C8: a batch whose delivery was confirmed (sent_at recorded) is never
\* passed to the delivery client again, even after its status was reset to
\* failed from outside.
C8_NoRedeliveryAfterReset ==
    \A k \in 1..Len(calls) : calls[k].sent_at = None

\* C9: within a run no step changes a status from sent, the only changes of
\* a status are pending->sent, pending->failed, failed->sent (failed->failed
\* leaves it as it is), and no step changes a document already uploaded, so
\* that a resumed run starts from the statuses that were saved.
Transitions ==
    {<<"pending", "sent">>, <<"pending", "failed">>, <<"failed", "sent">>,
     <<"failed", "failed">>}

C9_StatusStep ==
    /\ \A f \in 1..Len(wd_files) : f <= Len(wd_files') /\ wd_files'[f] = wd_files[f]
    /\ runs' = runs =>
          /\ Len(manifest'.batches) = Len(manifest.batches)
          /\ \A i \in 1..Len(manifest.batches) :
                \/ manifest'.batches[i].status = manifest.batches[i].status
                \/ <<manifest.batches[i].status, manifest'.batches[i].status>>
                      \in Transitions

C9_StatusMonotone == [][C9_StatusStep]_vars

\* a resumed run has sent a batch it loaded as failed and has passed a batch
\* it loaded as sent, which is still sent
C9_Witness ==
    /\ resume # None
    /\ \E k \in 1..Len(calls) : calls[k].status = "failed" /\ calls[k].ok
    /\ \E i \in 1..(pos - 1) :
          loaded[i] = "sent" /\ manifest.batches[i].status = "sent"

\* C10: N records give ceil(N/100) batches, all but the last of exactly 100
\* records and the last of 1..100, batch i has index i, every batch starts
\* pending, and the batches' products in index order are the input records;
\* this holds of the manifest __main__ builds and of the one create_batches
\* saves.
RECURSIVE Concat(_)
Concat(seqs) == IF Len(seqs) = 0 THEN <<>> ELSE Head(seqs) \o Concat(Tail(seqs))

Fresh == phase = "send" /\ resume = None /\ pos = 1 /\ calls = <<>>

Partitioned(m) ==
    LET N == m.meta.total_products
        M == TIDIO_MAX_PRODUCTS_PER_REQ
        B == m.batches
        K == (N + M - 1) \div M
    IN /\ Len(B) = K
       /\ m.meta.total_batches = K
       /\ \A i \in 1..Len(B) :
             /\ B[i].index = i - 1
             /\ B[i].status = "pending"
             /\ B[i].size = Len(B[i].products)
             /\ i < Len(B) => Len(B[i].products) = M
             /\ i = Len(B) => Len(B[i].products) \in 1..M
       /\ Concat([i \in 1..Len(B) |-> B[i].products]) = Products(N)

C10_Partition ==
    /\ Fresh => Partitioned(manifest)
    /\ batches_file # <<>> => Partitioned(batches_file[1])

\* 250 records: three batches of 100, 100 and 50, after create_batches
\* saved the two batches of 101 records
C10_Witness ==
    /\ Fresh
    /\ manifest.meta.total_products = 250
    /\ [i \in 1..Len(manifest.batches) |-> manifest.batches[i].size] = <<100, 100, 50>>
    /\ batches_file # <<>>
    /\ [i \in 1..Len(batches_file[1].batches) |-> batches_file[1].batches[i].size] = <<100, 1>>

\* C11: when send_batches has returned no batch is pending: every batch is
\* sent or failed, and the indices reported as failed are exactly the
\* batches that are not sent.
Returned == Exited /\ pos > Len(manifest.batches)

C11_NoPendingAtReturn ==
    Returned =>
        /\ \A i \in 1..Len(manifest.batches) :
              manifest.batches[i].status \in {"sent", "failed"}
        /\ FailedIndices(manifest) =
              {manifest.batches[i].index :
                 i \in {j \in 1..Len(manifest.batches) :
                          manifest.batches[j].status # "sent"}}

\* a run that returned from send_batches with a failed and a sent batch and
\* reported its file id
C11_Witness ==
    /\ Returned
    /\ file_id # None
    /\ \E i, j \in 1..Len(manifest.batches) :
          manifest.batches[i].status = "failed" /\ manifest.batches[j].status = "sent"

\* C12: on one client, whatever the latencies and the responses, two
\* consecutive requests are issued at least 7 seconds apart, and
\* last_request_time is the time at which the last request was issued (set
\* before the PUT, not after its response).
C12_RateLimit ==
    /\ \A i \in 1..(Len(starts) - 1) :
          starts[i + 1] - starts[i] >= MIN_INTERVAL * TicksPerSecond
    /\ starts # <<>> => last_request_time = starts[Len(starts)]

\* two requests exactly 7 seconds apart although the first response came
\* late, and the clock has moved past the last time stamp
C12_Witness ==
    /\ Len(starts) >= 2
    /\ starts[2] - starts[1] = MIN_INTERVAL * TicksPerSecond
    /\ now > last_request_time


\* C13: in a fresh run in which the transform of a record raised, no
\* delivery call is made (the records transformed before it are not sent).
C13_TransformFailureAborts == failed_at # 0 => calls = <<>>

\* C14: once a page response lacked total_count in a fresh run, OUTPUT_FILE
\* is written (with the empty list) before anything else happens, and no
\* delivery call is made for the rest of the run.
C14_FetchFailureNoDelivery ==
    fetch_result = "raised" => calls = <<>> /\ output_file = <<output_json>>

C14_Witness ==
    fetch_result = "raised" /\ Exited /\ output_file = <<<<>>>> /\ runs = 1

\* C15: a fresh run whose fetch, prefetch or transform failed never exits
\* with code 0, and a run whose fetch returned no record and in which
\* nothing failed exits with code 0.
PhaseFailed == fetch_result = "raised" \/ enrich_failed \/ failed_at # 0

C15_OutcomeDistinguished ==
    (Exited /\ stage = "main") =>
        /\ PhaseFailed => exit_code # 0
        /\ (fetch_result = "returned" /\ updates = <<>> /\ ~PhaseFailed) => exit_code = 0

\* C16: the pages are requested in the order 1, 2, 3, ..., each once; when
\* the first page reported T > 0 and fetch_web_products returned, it had
\* requested exactly the pages 1..ceil(T / 200) and it returned the items of
\* these pages, concatenated in page order.
Ceil(a, b) == CHOOSE k \in 0..a : k * b >= a /\ (k = 0 \/ (k - 1) * b < a)

C16_Paging ==
    /\ requested = [p \in 1..Len(requested) |-> p]
    /\ (fetch_result = "returned" /\ total_count > 0) =>
          /\ Len(requested) = Ceil(total_count, 200)
          /\ updates = Concat([p \in 1..Len(requested) |-> PageItems(catalog, p)])

C16_Witness ==
    /\ fetch_result = "returned"
    /\ total_count > 2 * PAGE_SIZE
    /\ total_count % PAGE_SIZE # 0
    /\ Len(requested) = 3
    /\ Len(updates) = total_count

\* C17: when the response for a page (the first or a later one) has no
\* total_count, fetch_web_products raises: that page was requested once and
\* is the last page requested, and no list of records is returned.
C17_MissingTotalCountFails ==
    bad_page # 0 =>
        /\ fetch_result = "raised"
        /\ Len(requested) = bad_page
        /\ \A p \in 1..Len(requested) : requested[p] = bad_page <=> p = bad_page
        /\ updates = <<>>

C17_Witness ==
    bad_page = 2 /\ fetch_result = "raised" /\ Len(all_products) = PAGE_SIZE

\* C18: when the first page reports total_count 0, fetch_web_products
\* returns the empty list, without raising and after one page request
\* only, for a full and for an incremental sync alike.
FirstPageReportsZero == requested # <<>> /\ bad_page # 1 /\ Len(catalog) = 0

C18_ZeroTotalReturnsEmpty ==
    FirstPageReportsZero =>
        /\ fetch_result = "returned"
        /\ updates = <<>>
        /\ requested = <<1>>

C18_Witness ==
    FirstPageReportsZero /\ ~full_sync /\ fetch_result = "returned" /\ stage = "enrich"

\* C19: every feature value stored by extract_features is the first
\* min(len, 249) characters of the resolved value, so none is longer than 249.
C19_FeatureTruncated ==
    features # <<>> =>
        \A k \in 1..Len(features[1]) :
            LET assigned == {j \in 1..Len(custom_attributes) :
                                /\ key_of(custom_attributes[j].attribute_code) = features[1][k].key
                                /\ custom_attributes[j].attribute_code \notin EXCLUDED_FEATURES
                                /\ custom_attributes[j].value # <<>>}
                last == CHOOSE j \in assigned : \A i \in assigned : i <= j
                value == resolved(custom_attributes[last])
            IN /\ Len(features[1][k].value) <= 249
               /\ features[1][k].value = SubSeq(value, 1, Min(Len(value), 249))

\* C20: a record of the website whose media list is empty, reached by the
\* transform loop, does not raise: it is appended to the output with the
\* image URL None.
Reached(i) == failed_at = i \/ (failed_at = 0 /\ (idx > i \/ stage \in {"written", "main"}))

C20_EmptyMediaSucceeds ==
    \A i \in 1..Len(updates) :
        (/\ Reached(i)
         /\ updates[i].in_website
         /\ updates[i].updated_at # ""
         /\ updates[i].media_gallery_entries = <<>>) =>
            /\ failed_at # i
            /\ \E k \in 1..Len(output_json) :
                  output_json[k].id = updates[i].id /\ output_json[k].image_url = None


\* C25: a call of upsert_product_batch with more than 100 products raises,
\* issues no request and leaves the limiter's time stamp alone, and
\* send_batches marks such a batch failed.
C25_OversizeStep ==
    (last_upsert' # last_upsert /\ last_upsert'.n > 100) =>
        /\ last_upsert'.result = "raise"
        /\ starts' = starts
        /\ last_request_time' = last_request_time
        /\ last_upsert'.status = "failed"

C25_PreflightSize == [][C25_OversizeStep]_vars

C25_Witness ==
    /\ last_upsert.n > 100
    /\ last_upsert.status = "failed"
    /\ Len(starts) = 1
    /\ last_request_time = starts[1]


\* C28: the delivery calls of one send_batches run have strictly increasing
\* batch indices, so no batch is attempted twice in a run (a failed one
\* included), and each call issues at most one PUT.
C28_InOrderOnce ==
    /\ \A i, j \in 1..Len(calls) : i < j => calls[i].index < calls[j].index
    /\ \A i \in 1..Len(calls) : calls[i].puts <= 1

C28_Witness ==
    /\ Returned
    /\ Len(calls) >= 3
    /\ ~calls[1].ok
    /\ calls[1].puts = 1
    /\ manifest.batches[1].status = "failed"


\* C29: between the attempts of a send_batches run whose uploads were all
\* accepted, fewer than 5 batches were delivered since the last push (since
\* the start of the run if there was none), and at most 4 batches are sent
\* in the manifest without being sent in the most recent remote checkpoint.
LastPush == IF \E k \in 1..Len(calls) : calls[k].accepted
            THEN CHOOSE k \in 1..Len(calls) :
                    calls[k].accepted /\ \A j \in (k + 1)..Len(calls) : ~calls[j].accepted
            ELSE 0

DeliveredSinceLastPush ==
    Cardinality({k \in (LastPush + 1)..Len(calls) : calls[k].ok})

\* the statuses of the most recent remote checkpoint: the last push of this
\* run, else the document the run was resumed from, else nothing sent
CheckpointStatuses ==
    IF LastPush # 0 THEN Statuses(wd_files[Len(wd_files)])
    ELSE IF resume # None THEN Statuses(wd_files[resume])
    ELSE [i \in 1..Len(manifest.batches) |-> "pending"]

UploadsAccepted == \A k \in 1..Len(calls) : calls[k].pushed => calls[k].accepted

C29_BoundedStaleness ==
    (phase = "send" /\ UploadsAccepted) =>
        /\ DeliveredSinceLastPush < CHECKPOINT_EVERY_N_BATCHES
        /\ Cardinality({i \in 1..Len(manifest.batches) :
                           /\ manifest.batches[i].status = "sent"
                           /\ CheckpointStatuses[i] # "sent"}) <= 4

C29_Witness ==
    /\ phase = "send"
    /\ UploadsAccepted
    /\ Len(calls) = 6
    /\ calls[5].accepted /\ calls[5].sent_count = 5
    /\ DeliveredSinceLastPush = 1


\* C26: every launch of the scheduler happens at minute 00; it is a full
\* sync exactly when the hour is 02 and an incremental one exactly when the
\* hour is one of 0, 4, 6, ..., 22 (so never at an odd hour); and it is not
\* in the same clock hour as the launch before it.
IsLaunch == in_flight' = in_flight + 1

C26_LaunchStep ==
    IsLaunch =>
        /\ minute_of(utc') = 0
        /\ launched' \in {"full", "incremental"}
        /\ launched' = "full" <=> hour_of(utc') = 2
        /\ launched' = "incremental" <=>
              hour_of(utc') \in {0, 4, 6, 8, 10, 12, 14, 16, 18, 20, 22}
        /\ hour_of(utc') % 2 = 0
        /\ last_launch' = utc'
        /\ last_launch # NoLaunch => utc' \div 60 # last_launch \div 60

C26_SchedulerSafety == [][C26_LaunchStep]_vars

C26_Witness ==
    /\ launched = "full"
    /\ last_launch = MinutesPerDay + 2 * 60
    /\ utc = last_launch
    /\ sched = "wait"

\* C27: whatever the earlier subprocesses lasted, no scheduled time (02:00
\* for the full sync; 00:00, 04:00, ..., 22:00 for the incremental one)
\* passes without its launch: the latest scheduled time reached by the clock
\* is the time of the latest launch.
Slots == {t \in 1..utc : minute_of(t) = 0 /\ launch_of(hour_of(t)) # "none"}

C27_EverySlotLaunched ==
    Slots # {} =>
        LET slot == CHOOSE t \in Slots : \A u \in Slots : u <= t
        IN last_launch = slot /\ launched = launch_of(hour_of(slot))

\* C30: at most one sync subprocess is in flight at any time, and while
\* one is, main is inside subprocess.run.
C30_OneInFlight ==
    /\ in_flight <= 1
    /\ in_flight = 1 <=> sched = "wait"

C30_Witness ==
    /\ in_flight = 1
    /\ launched = "incremental"
    /\ utc = 4 * 60
    /\ last_launch = utc


\* C21: a SKU whose record is price on application is in no chunk asked of
\* the source and its destination record has the null price; a SKU that was
\* asked for and that no price response returned is not a key of the
\* mapping fetch_all_prices returned.
Queried == UNION {{price_queries[c][k] : k \in 1..Len(price_queries[c])} :
                    c \in 1..Len(price_queries)}

C21_NeverQueried == \A sku \in on_application : sku \notin Queried

C21_NullPrice ==
    \A sku \in on_application, k \in 1..Len(output_json) :
        output_json[k].id = id_of(sku) => output_json[k].price = NULL_PRICE

C21_NotReturnedAbsent ==
    priced => \A sku \in Queried \ price_answers : sku \notin DOMAIN price_map

C21_PriceResolution ==
    /\ C21_NeverQueried
    /\ C21_NullPrice
    /\ C21_NotReturnedAbsent

\* C22: over any sequence of fetch_web_atrribute_value_label calls on one
\* catalog object, the options endpoint is requested at most once for each
\* attribute code.
C22_OneRequestPerCode ==
    \A attribute_code \in AttributeCodes : options_requests[attribute_code] <= 1

\* C23: over any sequence of calls on one catalog object, a key that is
\* present in the category-name map keeps its value, and an attribute code
\* that is present in the options map keeps its table.
C23_KeepsValue ==
    /\ \A key \in CategoryKeys :
          category_id_name_map[key] # Absent =>
              category_id_name_map'[key] = category_id_name_map[key]
    /\ \A attribute_code \in AttributeCodes :
          attribute_options_map[attribute_code] # <<>> =>
              attribute_options_map'[attribute_code] = attribute_options_map[attribute_code]

C23_AppendOnly == [][C23_KeepsValue]_vars

\* C24: after prefetch_all_categories, every fetch_web_category_name, for an
\* id given as an integer or as a string, returns what the same lookup
\* returns on an object that resolves lazily from a fresh cache, and no
\* category of the tree is asked of the category endpoint.
C24_PrefetchEquivalence ==
    lookups > 0 =>
        /\ last_result = lazy_result
        /\ requested_ids \cap TreeIds(categories[1]) = {}

\* three lookups after a prefetch: one outside the tree, the category 3 by
\* the string of its id, and the last one returning a name
C24_Witness ==
    /\ lookups = MaxLookups
    /\ Prefetched
    /\ last_result \in Names
    /\ lazy_map[<<"str", 3>>] # Absent
    /\ requested_ids # {}


\* C31: a step of send_batches leaves the meta block, the number and order
\* of the batches and the index, size and products of every batch as they
\* are; a batch that is not the one attempted, or whose status is "sent",
\* keeps every field.
C31_FrameStep ==
    phase = "send" =>
        /\ manifest'.meta = manifest.meta
        /\ Len(manifest'.batches) = Len(manifest.batches)
        /\ \A i \in 1..Len(manifest.batches) :
              /\ manifest'.batches[i].index = manifest.batches[i].index
              /\ manifest'.batches[i].size = manifest.batches[i].size
              /\ manifest'.batches[i].products = manifest.batches[i].products
              /\ (i # pos \/ manifest.batches[i].status = "sent") =>
                    manifest'.batches[i] = manifest.batches[i]

C31_SendBatchesFrame == [][C31_FrameStep]_vars

\* a resumed run that skipped a sent batch and delivered another one
C31_Witness ==
    /\ phase = "send"
    /\ resume # None
    /\ \E i \in 1..(pos - 1) : loaded[i] = "sent"
    /\ \E j \in 1..(pos - 1) :
          loaded[j] # "sent" /\ manifest.batches[j].sent_at # None

\* C32: in the manifest in memory, in BATCHES_FILE and in every document
\* uploaded to WorkDrive, a batch has a sent_at that is not None exactly
\* when its status is "sent".
SentAtConsistent(m) ==
    \A i \in 1..Len(m.batches) :
        (m.batches[i].sent_at # None) <=> (m.batches[i].status = "sent")

C32_SentAtConsistency ==
    /\ SentAtConsistent(manifest)
    /\ batches_file # <<>> => SentAtConsistent(batches_file[1])
    /\ \A f \in 1..Len(wd_files) : SentAtConsistent(wd_files[f])

\* a resumed run delivered a batch that had failed, and another batch
\* failed in it
C32_Witness ==
    /\ resume # None
    /\ \E i \in 1..Len(manifest.batches) :
          i <= Len(loaded) /\ loaded[i] = "failed" /\ manifest.batches[i].status = "sent"
    /\ \E j \in 1..Len(manifest.batches) :
          manifest.batches[j].status = "failed" /\ manifest.batches[j].sent_at = None

====
